---- MODULE Spec2Model ----
(***************************************************************************)
(* Model of the sql-mcp query gateway: configuration resolution            *)
(* (utils/connect.py), the two merge policies (utils/__init__.py) and the  *)
(* four exposed tools of sql_mcp.py (get_mysql_schema, test_connection,    *)
(* get_sql_table_info, run_sql).  The database driver and the server are    *)
(* the environment: their outcomes are chosen nondeterministically at the  *)
(* call sites of the source.                                               *)
(***************************************************************************)
EXTENDS Integers, Sequences, FiniteSets, TLC

VARIABLES
    proc,           \* "running" | "exited": the server process
    _source,        \* sql_mcp.py:19-23, the startup-selected source tag
    _defaults,      \* utils/connect.py:22-30, the default parameter set
    configFile,     \* "present" | "missing": config.yaml on disk
    cfgDb,          \* the database entry of the configuration (file or environment)
    openConns,      \* ids of the driver connections that are currently open
    calls,          \* number of tool calls started so far (also the connection id)
    pc,             \* position of the running call
    op,             \* name of the running / last call
    sql_list,       \* run_sql argument
    database,       \* run_sql argument
    fetch_results,  \* run_sql argument
    results,        \* run_sql local
    errors,         \* run_sql local
    status,         \* run_sql local
    i,              \* run_sql loop position (1-based; Python index is i-1)
    conn,           \* run_sql local: NoConn while 'conn' is not in locals()
    cursor,         \* run_sql local: TRUE once 'cursor' is in locals()
    exc,            \* the exception in flight, NoExc when there is none
    log,            \* driver operations issued by the running / last call
    ret,            \* how the last call ended
    args,           \* arguments of the running / last call of the other tools
    current_db,     \* what DATABASE() evaluates to on the call's connection
    m_source_dict,  \* first argument of a merge applied on its own
    m_new_dict,     \* second argument of a merge applied on its own
    m_result        \* what that merge returned and left in its arguments

vars == <<proc, _source, _defaults, configFile, cfgDb, openConns, calls, pc, op,
          sql_list, database, fetch_results, results, errors, status, i,
          conn, cursor, exc, log, ret, args, current_db,
          m_source_dict, m_new_dict, m_result>>
mergeVars == <<m_source_dict, m_new_dict, m_result>>

(***************************************************************************)
(* Bounds                                                                  *)
(***************************************************************************)
MaxBatch == 2
MaxCalls == 2

(***************************************************************************)
(* Values                                                                  *)
(***************************************************************************)
None == "None"
Null == [kind |-> "None"]
NoExc == [kind |-> "none"]
\* conn while 'conn' is not in locals(); connection ids start at 1
NoConn == 0
\* args while no tool other than run_sql has been called
NoArgs == [tool |-> "none"]
\* m_result while no merge has been applied on its own
NoMerge == [op |-> "none"]

Sources == {"yaml", ".env", "sys_env", "bogus"}
Databases == {"db1"}
DbNames == {"db1", "nodb"}

\* statement texts, as sequences of characters
SqlSelect == <<" ", "s", "e", "L", "E", "C", "T", " ", "1", " ">>
SqlInsert == <<"I", "N", "S", "E", "R", "T">>
SqlBlank == <<" ">>
SqlTexts == {SqlSelect, SqlInsert, SqlBlank}

RECURSIVE SeqsUpTo(_, _)
SeqsUpTo(S, n) ==
    IF n = 0 THEN {<<>>}
    ELSE LET shorter == SeqsUpTo(S, n - 1)
         IN shorter \cup {Append(s, x) : s \in {t \in shorter : Len(t) = n - 1}, x \in S}

Batches == SeqsUpTo(SqlTexts, MaxBatch)

(***************************************************************************)
(* utils/__init__.py                                                       *)
(***************************************************************************)
\* variant: every key of new_dict is written, as dict.update would
trans_none_only_Overwrite(source_dict, new_dict) ==
    [k \in (DOMAIN source_dict) \cup (DOMAIN new_dict) |->
        IF k \in DOMAIN new_dict THEN new_dict[k] ELSE source_dict[k]]

trans_none_only(source_dict, new_dict) ==
    [k \in (DOMAIN source_dict) \cup (DOMAIN new_dict) |->
        IF k \in DOMAIN new_dict /\ (k \notin DOMAIN source_dict \/ source_dict[k] = None)
        THEN new_dict[k]
        ELSE source_dict[k]]

\* variant: a None value of new_dict is written too
replace_config_dict_WritesNone(source_dict, new_dict) ==
    [k \in (DOMAIN source_dict) \cup (DOMAIN new_dict) |->
        IF k \in DOMAIN new_dict THEN new_dict[k] ELSE source_dict[k]]

replace_config_dict(source_dict, new_dict) ==
    [k \in (DOMAIN source_dict) \cup {n \in DOMAIN new_dict : new_dict[n] # None} |->
        IF k \in DOMAIN new_dict /\ new_dict[k] # None
        THEN new_dict[k]
        ELSE source_dict[k]]

\* the two arguments as trans_none_only leaves them: result is a copy of
\* source_dict, the writes go to the copy, new_dict is only read
ArgsAfterTransNoneOnly(source_dict, new_dict) == <<source_dict, new_dict>>

\* variant: result is source_dict itself, not a copy
ArgsAfterReplace_NoCopy(source_dict, new_dict) ==
    <<replace_config_dict(source_dict, new_dict), new_dict>>

\* the two arguments as replace_config_dict leaves them: result is a copy of
\* source_dict, the writes go to the copy, new_dict is only read
ArgsAfterReplace(source_dict, new_dict) == <<source_dict, new_dict>>

(***************************************************************************)
(* utils/connect.py                                                        *)
(***************************************************************************)
defaults ==
    [host |-> "127.0.0.1", port |-> "3306", user |-> None, password |-> None,
     database |-> None, charset |-> "utf8mb4", cursorclass |-> "DictCursor"]

\* config['database'] of config.yaml: a partial parameter set
YamlSection(db) ==
    IF db = None THEN [user |-> "root"] ELSE [user |-> "root", database |-> db]

\* os.getenv of the six fixed names: None for an unset variable
Getenv(db) ==
    [host |-> None, port |-> None, user |-> "root", password |-> None,
     database |-> db, charset |-> None]

\* get_config: fatal = TRUE stands for sys.exit / exit
get_config(source, file, db) ==
    IF source = "yaml"
    THEN IF file = "missing"
         THEN [fatal |-> TRUE, dict |-> <<>>]
         ELSE [fatal |-> FALSE, dict |-> YamlSection(db)]
    ELSE IF source = ".env" \/ source = "sys_env"
    THEN [fatal |-> FALSE, dict |-> Getenv(db)]
    ELSE [fatal |-> TRUE, dict |-> <<>>]

\* pymysql.connect(**connection_params) against a server in state srv (up,
\* unreachable, or rejecting the credentials): "ok" or the reason of the
\* MySQLError
ServerStates == {"up", "down", "denying"}
PyConnect(params, srv) ==
    IF srv = "down" THEN "unreachable"
    ELSE IF srv = "denying" THEN "denied"
    ELSE IF params["database"] # None /\ params["database"] \notin Databases
    THEN "unknown_db"
    ELSE "ok"

\* variant: only an unreachable server is reported as False
connect_OnlyUnreachable(config_dict, srv) ==
    LET connection_params == replace_config_dict(_defaults, config_dict)
        r == PyConnect(connection_params, srv)
    IN IF r = "ok"
       THEN [value |-> TRUE, ops |-> << <<"connect", 0, "ok">>, <<"close", 0, "ok">> >>]
       ELSE [value |-> (r # "unreachable"), ops |-> << <<"connect", 0, r>> >>]

\* connect(config_dict): the boolean returned and the driver operations issued
connect(config_dict, srv) ==
    LET connection_params == replace_config_dict(_defaults, config_dict)
        r == PyConnect(connection_params, srv)
    IN IF r = "ok"
       THEN [value |-> TRUE, ops |-> << <<"connect", 0, "ok">>, <<"close", 0, "ok">> >>]
       ELSE [value |-> FALSE, ops |-> << <<"connect", 0, r>> >>]

(***************************************************************************)
(* sql_mcp.py: helpers of run_sql                                          *)
(***************************************************************************)
Whitespace == {" "}
RECURSIVE lstrip(_)
lstrip(s) == IF s # <<>> /\ Head(s) \in Whitespace THEN lstrip(Tail(s)) ELSE s
RECURSIVE rstrip(_)
rstrip(s) ==
    IF s # <<>> /\ s[Len(s)] \in Whitespace THEN rstrip(SubSeq(s, 1, Len(s) - 1)) ELSE s
strip(s) == rstrip(lstrip(s))

UpperChar(c) ==
    CASE c = "s" -> "S" [] c = "e" -> "E" [] c = "l" -> "L"
      [] c = "c" -> "C" [] c = "t" -> "T" [] OTHER -> c
upper(s) == [k \in 1..Len(s) |-> UpperChar(s[k])]

startswith(s, prefix) ==
    Len(s) >= Len(prefix) /\ SubSeq(s, 1, Len(prefix)) = prefix

\* variant: the statement is not trimmed before the test
IsSelect_NoStrip(sql) == startswith(upper(sql), <<"S", "E", "L", "E", "C", "T">>)

\* sql.strip().upper().startswith("SELECT")
IsSelect(sql) == startswith(upper(strip(sql)), <<"S", "E", "L", "E", "C", "T">>)

\* outcomes the driver can produce for cursor.execute(sql): success, a
\* pymysql.Error, or an exception that is not a pymysql.Error
ExecOutcomes(sql) ==
    IF strip(sql) = <<>> THEN {"dberr", "unexpected"} ELSE {"ok", "dberr", "unexpected"}

\* results.append(...) of a successful statement at 1-based position k
Outcome(fetch, sql, k) ==
    IF fetch /\ IsSelect(sql)
    THEN [kind |-> "rows", stmt |-> k - 1]
    ELSE [kind |-> "affected_rows", stmt |-> k - 1]

\* f"SQL语句错误(索引 {i}): {str(e)}"
StmtErrorMsg(k, e) == [kind |-> "stmt", index |-> k - 1, msg |-> e]
\* f"MySQL连接错误: {str(e)}"
ConnErrorMsg(e) == [kind |-> "conn", msg |-> e]

\* variant: the list is one element short
Repeat_Short(x, n) == [k \in 1..(n - 1) |-> x]

\* [x] * n
Repeat(x, n) == [k \in 1..n |-> x]

Ev(name, arg, outcome) == <<name, arg, outcome>>

(***************************************************************************)
(* Initial state: the process has started, no call has been made           *)
(***************************************************************************)
Init ==
    /\ proc = "running"
    /\ _source \in Sources
    /\ _defaults = defaults
    /\ configFile \in {"present", "missing"}
    /\ cfgDb \in {None} \cup DbNames
    /\ openConns = {}
    /\ calls = 0
    /\ pc = "idle"
    /\ op = "none"
    /\ sql_list = <<>>
    /\ database = None
    /\ fetch_results = TRUE
    /\ results = <<>>
    /\ errors = <<>>
    /\ status = "success"
    /\ i = 1
    /\ conn = NoConn
    /\ cursor = FALSE
    /\ exc = NoExc
    /\ log = <<>>
    /\ ret = [kind |-> "none"]
    /\ args = NoArgs
    /\ current_db = None
    /\ m_source_dict = <<>>
    /\ m_new_dict = <<>>
    /\ m_result = NoMerge

\* the locals of a run_sql invocation do not outlive it
NoRunSqlFrame ==
    /\ sql_list' = <<>>
    /\ database' = None
    /\ fetch_results' = TRUE
    /\ results' = <<>>
    /\ errors' = <<>>
    /\ status' = "success"
    /\ i' = 1
    /\ conn' = NoConn
    /\ cursor' = FALSE

CanCall == proc = "running" /\ pc \in {"idle", "done"} /\ calls < MaxCalls

(***************************************************************************)
(* run_sql                                                                 *)
(***************************************************************************)
\* lines 302-319: entry, results = [], errors = [], status = "success"
RunSqlCall(sl, db, fetch) ==
    /\ CanCall
    /\ calls' = calls + 1
    /\ op' = "run_sql"
    /\ pc' = "rs_connect"
    /\ sql_list' = sl
    /\ database' = db
    /\ fetch_results' = fetch
    /\ results' = <<>>
    /\ errors' = <<>>
    /\ status' = "success"
    /\ i' = 1
    /\ conn' = NoConn
    /\ cursor' = FALSE
    /\ exc' = NoExc
    /\ log' = <<>>
    /\ ret' = [kind |-> "none"]
    /\ args' = NoArgs
    /\ current_db' = None
    /\ UNCHANGED <<proc, _source, _defaults, configFile, cfgDb, mergeVars, openConns>>

\* lines 323-324 with _connection (26-32): conn = _connection(database), cursor
RunSqlConnect(srv, sel) ==
    /\ pc = "rs_connect"
    /\ LET cfg == get_config(_source, configFile, cfgDb)
           connection_params == replace_config_dict(_defaults, cfg.dict)
           r == PyConnect(connection_params, srv)
           selOutcome == IF database \in Databases THEN sel ELSE "rejected"
       IN IF cfg.fatal
          THEN /\ exc' = [kind |-> "SystemExit"]
               /\ pc' = "rs_finally"
               /\ log' = Append(log, Ev("get_config", 0, "fatal"))
               /\ UNCHANGED <<openConns, conn, cursor, _defaults, current_db>>
          ELSE IF r # "ok"
          THEN /\ exc' = [kind |-> "pymysql", msg |-> r]
               /\ pc' = "rs_except"
               /\ log' = Append(log, Ev("connect", calls, r))
               /\ _defaults' = ArgsAfterReplace(_defaults, cfg.dict)[1]
               /\ UNCHANGED <<openConns, conn, cursor, current_db>>
          ELSE IF database # None /\ selOutcome # "ok"
          THEN \* select_db raises inside _connection: the connection object
               \* is never bound to conn
               /\ exc' = [kind |-> "pymysql", msg |-> "select_db_rejected"]
               /\ pc' = "rs_except"
               /\ openConns' = openConns \cup {calls}
               /\ log' = log \o << Ev("connect", calls, "ok"),
                                   Ev("select_db", calls, "rejected") >>
               /\ _defaults' = ArgsAfterReplace(_defaults, cfg.dict)[1]
               /\ current_db' = connection_params["database"]
               /\ UNCHANGED <<conn, cursor>>
          ELSE /\ openConns' = openConns \cup {calls}
               /\ conn' = calls
               /\ cursor' = TRUE
               /\ pc' = "rs_loop"
               /\ log' = log \o (IF database # None
                                 THEN << Ev("connect", calls, "ok"),
                                         Ev("select_db", calls, "ok") >>
                                 ELSE << Ev("connect", calls, "ok") >>)
               /\ _defaults' = ArgsAfterReplace(_defaults, cfg.dict)[1]
               /\ current_db' = IF database # None THEN database
                                ELSE connection_params["database"]
               /\ UNCHANGED exc
    /\ UNCHANGED <<proc, _source, configFile, cfgDb, mergeVars,
                   calls, op, args,
                   sql_list, database, fetch_results, results, errors, status, i, ret>>

\* variant: a failing statement records its message but no null result
RunSqlExecute_NoNullResult(outcome) ==
    /\ pc = "rs_loop"
    /\ i <= Len(sql_list)
    /\ outcome \in ExecOutcomes(sql_list[i])
    /\ log' = Append(log, Ev("execute", i - 1, outcome))
    /\ CASE outcome = "ok" ->
              /\ results' = Append(results, Outcome(fetch_results, sql_list[i], i))
              /\ errors' = Append(errors, Null)
              /\ i' = i + 1
              /\ UNCHANGED <<status, exc, pc>>
         [] outcome = "dberr" ->
              /\ errors' = Append(errors, StmtErrorMsg(i, "stmt_error"))
              /\ status' = "error"
              /\ i' = i + 1
              /\ UNCHANGED <<exc, pc, results>>
         [] outcome = "unexpected" ->
              /\ exc' = [kind |-> "other"]
              /\ pc' = "rs_finally"
              /\ UNCHANGED <<results, errors, status, i>>
    /\ UNCHANGED <<proc, _source, _defaults, configFile, cfgDb, mergeVars,
                   openConns, calls, op, args, current_db,
                   sql_list, database, fetch_results, conn, cursor, ret>>

\* variant: a pymysql.Error of a statement leaves the loop through the outer handler
RunSqlExecute_Abort(outcome) ==
    /\ pc = "rs_loop"
    /\ i <= Len(sql_list)
    /\ outcome \in ExecOutcomes(sql_list[i])
    /\ log' = Append(log, Ev("execute", i - 1, outcome))
    /\ CASE outcome = "ok" ->
              /\ results' = Append(results, Outcome(fetch_results, sql_list[i], i))
              /\ errors' = Append(errors, Null)
              /\ i' = i + 1
              /\ UNCHANGED <<status, exc, pc>>
         [] outcome = "dberr" ->
              /\ exc' = [kind |-> "pymysql", msg |-> "stmt_error"]
              /\ pc' = "rs_except"
              /\ UNCHANGED <<results, errors, status, i>>
         [] outcome = "unexpected" ->
              /\ exc' = [kind |-> "other"]
              /\ pc' = "rs_finally"
              /\ UNCHANGED <<results, errors, status, i>>
    /\ UNCHANGED <<proc, _source, _defaults, configFile, cfgDb, mergeVars,
                   openConns, calls, op, args, current_db,
                   sql_list, database, fetch_results, conn, cursor, ret>>

\* lines 327-347: one iteration of the loop
RunSqlExecute(outcome) ==
    /\ pc = "rs_loop"
    /\ i <= Len(sql_list)
    /\ outcome \in ExecOutcomes(sql_list[i])
    /\ log' = Append(log, Ev("execute", i - 1, outcome))
    /\ CASE outcome = "ok" ->
              /\ results' = Append(results, Outcome(fetch_results, sql_list[i], i))
              /\ errors' = Append(errors, Null)
              /\ i' = i + 1
              /\ UNCHANGED <<status, exc, pc>>
         [] outcome = "dberr" ->
              /\ errors' = Append(errors, StmtErrorMsg(i, "stmt_error"))
              /\ results' = Append(results, Null)
              /\ status' = "error"
              /\ i' = i + 1
              /\ UNCHANGED <<exc, pc>>
         [] outcome = "unexpected" ->
              /\ exc' = [kind |-> "other"]
              /\ pc' = "rs_finally"
              /\ UNCHANGED <<results, errors, status, i>>
    /\ UNCHANGED <<proc, _source, _defaults, configFile, cfgDb, mergeVars,
                   openConns, calls, op, args, current_db,
                   sql_list, database, fetch_results, conn, cursor, ret>>

\* variant: a failing commit is ignored
RunSqlCommit_Swallow(outcome) ==
    /\ pc = "rs_loop"
    /\ i > Len(sql_list)
    /\ log' = Append(log, Ev("commit", conn, outcome))
    /\ pc' = "rs_finally"
    /\ UNCHANGED <<proc, _source, _defaults, configFile, cfgDb, mergeVars,
                   openConns, calls, op, args, current_db,
                   sql_list, database, fetch_results, results, errors, status, i,
                   conn, cursor, ret, exc>>

\* variant: the commit is skipped when a statement of the batch failed
RunSqlCommit_OnlyOnSuccess(outcome) ==
    /\ pc = "rs_loop"
    /\ i > Len(sql_list)
    /\ IF status = "error"
       THEN outcome = "ok" /\ pc' = "rs_finally" /\ UNCHANGED <<exc, log>>
       ELSE /\ log' = Append(log, Ev("commit", conn, outcome))
            /\ IF outcome = "ok"
               THEN pc' = "rs_finally" /\ UNCHANGED exc
               ELSE pc' = "rs_except" /\ exc' = [kind |-> "pymysql", msg |-> "commit_error"]
    /\ UNCHANGED <<proc, _source, _defaults, configFile, cfgDb, mergeVars,
                   openConns, calls, op, args, current_db,
                   sql_list, database, fetch_results, results, errors, status, i,
                   conn, cursor, ret>>

\* line 350: conn.commit()
RunSqlCommit(outcome) ==
    /\ pc = "rs_loop"
    /\ i > Len(sql_list)
    /\ log' = Append(log, Ev("commit", conn, outcome))
    /\ IF outcome = "ok"
       THEN pc' = "rs_finally" /\ UNCHANGED exc
       ELSE pc' = "rs_except" /\ exc' = [kind |-> "pymysql", msg |-> "commit_error"]
    /\ UNCHANGED <<proc, _source, _defaults, configFile, cfgDb, mergeVars,
                   openConns, calls, op, args, current_db,
                   sql_list, database, fetch_results, results, errors, status, i,
                   conn, cursor, ret>>

\* variant: the handler replaces errors but keeps the captured results
RunSqlExcept_KeepResults(outcome) ==
    /\ pc = "rs_except"
    /\ errors' = Repeat(ConnErrorMsg(exc.msg), Len(sql_list))
    /\ status' = "error"
    /\ IF conn # NoConn
       THEN /\ log' = Append(log, Ev("rollback", conn, outcome))
            /\ exc' = IF outcome = "ok" THEN NoExc
                      ELSE [kind |-> "pymysql", msg |-> "rollback_error"]
       ELSE /\ outcome = "ok"
            /\ exc' = NoExc
            /\ UNCHANGED log
    /\ pc' = "rs_finally"
    /\ UNCHANGED <<proc, _source, _defaults, configFile, cfgDb, mergeVars,
                   openConns, calls, op, args, current_db,
                   sql_list, database, fetch_results, i, conn, cursor, ret, results>>

\* variant: the handler never rolls back
RunSqlExcept_NoRollback(outcome) ==
    /\ pc = "rs_except"
    /\ errors' = Repeat(ConnErrorMsg(exc.msg), Len(sql_list))
    /\ results' = Repeat(Null, Len(sql_list))
    /\ status' = "error"
    /\ outcome = "ok"
    /\ exc' = NoExc
    /\ pc' = "rs_finally"
    /\ UNCHANGED <<proc, _source, _defaults, configFile, cfgDb, mergeVars,
                   openConns, calls, op, args, current_db,
                   sql_list, database, fetch_results, i, conn, cursor, ret, log>>

\* variant: the handler leaves status as the loop set it
RunSqlExcept_KeepStatus(outcome) ==
    /\ pc = "rs_except"
    /\ errors' = Repeat(ConnErrorMsg(exc.msg), Len(sql_list))
    /\ results' = Repeat(Null, Len(sql_list))
    /\ IF conn # NoConn
       THEN /\ log' = Append(log, Ev("rollback", conn, outcome))
            /\ exc' = IF outcome = "ok" THEN NoExc
                      ELSE [kind |-> "pymysql", msg |-> "rollback_error"]
       ELSE /\ outcome = "ok"
            /\ exc' = NoExc
            /\ UNCHANGED log
    /\ pc' = "rs_finally"
    /\ UNCHANGED <<proc, _source, _defaults, configFile, cfgDb, mergeVars,
                   openConns, calls, op, args, current_db,
                   sql_list, database, fetch_results, i, conn, cursor, ret, status>>

\* variant: the handler records the failure and raises it again
RunSqlExcept_Reraise(outcome) ==
    /\ pc = "rs_except"
    /\ errors' = Repeat(ConnErrorMsg(exc.msg), Len(sql_list))
    /\ results' = Repeat(Null, Len(sql_list))
    /\ status' = "error"
    /\ IF conn # NoConn
       THEN /\ log' = Append(log, Ev("rollback", conn, outcome))
            /\ exc' = IF outcome = "ok" THEN exc
                      ELSE [kind |-> "pymysql", msg |-> "rollback_error"]
       ELSE /\ outcome = "ok"
            /\ UNCHANGED <<exc, log>>
    /\ pc' = "rs_finally"
    /\ UNCHANGED <<proc, _source, _defaults, configFile, cfgDb, mergeVars,
                   openConns, calls, op, args, current_db,
                   sql_list, database, fetch_results, i, conn, cursor, ret>>

\* lines 352-361: except pymysql.Error
RunSqlExcept(outcome) ==
    /\ pc = "rs_except"
    /\ errors' = Repeat(ConnErrorMsg(exc.msg), Len(sql_list))
    /\ results' = Repeat(Null, Len(sql_list))
    /\ status' = "error"
    /\ IF conn # NoConn
       THEN /\ log' = Append(log, Ev("rollback", conn, outcome))
            /\ exc' = IF outcome = "ok" THEN NoExc
                      ELSE [kind |-> "pymysql", msg |-> "rollback_error"]
       ELSE /\ outcome = "ok"
            /\ exc' = NoExc
            /\ UNCHANGED log
    /\ pc' = "rs_finally"
    /\ UNCHANGED <<proc, _source, _defaults, configFile, cfgDb, mergeVars,
                   openConns, calls, op, args, current_db,
                   sql_list, database, fetch_results, i, conn, cursor, ret>>

\* variant: the connection is closed only when no exception is in flight
RunSqlFinally_CloseOnSuccess ==
    /\ pc = "rs_finally"
    /\ log' = log \o (IF cursor /\ exc.kind = "none"
                      THEN << Ev("cursor_close", 0, "ok") >> ELSE <<>>)
                  \o (IF conn # NoConn /\ exc.kind = "none"
                      THEN << Ev("close", conn, "ok") >> ELSE <<>>)
    /\ openConns' = IF conn # NoConn /\ exc.kind = "none" THEN openConns \ {conn} ELSE openConns
    /\ ret' = CASE exc.kind = "none" ->
                     [kind |-> "return",
                      value |-> [results |-> results, errors |-> errors, status |-> status]]
                [] exc.kind = "SystemExit" -> [kind |-> "exit"]
                [] OTHER -> [kind |-> "raise", exc |-> exc]
    /\ proc' = IF exc.kind = "SystemExit" THEN "exited" ELSE proc
    /\ pc' = "done"
    /\ UNCHANGED <<_source, _defaults, configFile, cfgDb, mergeVars,
                   calls, op, args, current_db,
                   sql_list, database, fetch_results, results, errors, status, i,
                   conn, cursor, exc>>

\* lines 363-375: finally, then return the report or propagate
RunSqlFinally ==
    /\ pc = "rs_finally"
    /\ log' = log \o (IF cursor THEN << Ev("cursor_close", 0, "ok") >> ELSE <<>>)
                  \o (IF conn # NoConn THEN << Ev("close", conn, "ok") >> ELSE <<>>)
    /\ openConns' = IF conn # NoConn THEN openConns \ {conn} ELSE openConns
    /\ ret' = CASE exc.kind = "none" ->
                     [kind |-> "return",
                      value |-> [results |-> results, errors |-> errors, status |-> status]]
                [] exc.kind = "SystemExit" -> [kind |-> "exit"]
                [] OTHER -> [kind |-> "raise", exc |-> exc]
    /\ proc' = IF exc.kind = "SystemExit" THEN "exited" ELSE proc
    /\ pc' = "done"
    /\ UNCHANGED <<_source, _defaults, configFile, cfgDb, mergeVars,
                   calls, op, args, current_db,
                   sql_list, database, fetch_results, results, errors, status, i,
                   conn, cursor, exc>>

(***************************************************************************)
(* test_connection                                                         *)
(***************************************************************************)
\* lines 163-165
TestConnection(db, source, srv) ==
    /\ CanCall
    /\ calls' = calls + 1
    /\ op' = "test_connection"
    /\ pc' = "done"
    /\ LET cfg == get_config(source, configFile, cfgDb)
           source_dict == [k \in (DOMAIN cfg.dict) \cup {"database"} |->
                              IF k = "database" THEN db ELSE cfg.dict[k]]
           r == connect(source_dict, srv)
       IN IF cfg.fatal
          THEN /\ ret' = [kind |-> "exit"]
               /\ proc' = "exited"
               /\ log' = << Ev("get_config", 0, "fatal") >>
               /\ current_db' = None
               /\ UNCHANGED _defaults
          ELSE /\ ret' = [kind |-> "return", value |-> r.value]
               /\ log' = r.ops
               /\ current_db' = IF r.value
                                THEN replace_config_dict(_defaults, source_dict)["database"]
                                ELSE None
               /\ _defaults' = ArgsAfterReplace(_defaults, source_dict)[1]
               /\ UNCHANGED proc
    /\ args' = [tool |-> "test_connection", database |-> db, source |-> source]
    /\ exc' = NoExc
    /\ NoRunSqlFrame
    /\ UNCHANGED <<_source, configFile, cfgDb, mergeVars, openConns>>

(***************************************************************************)
(* The server's catalog, read by the introspection tools                   *)
(***************************************************************************)
TableNames == {"t1", "nope"}
\* tables of a database (SHOW TABLES)
TablesOf(db) == IF db = "db1" THEN {"t1"} ELSE {}
\* columns of a table by ordinal position, with their comments
ColumnsOf(db, t) ==
    IF db = "db1" /\ t = "t1"
    THEN << [COLUMN_NAME |-> "id", COLUMN_COMMENT |-> "key", ORDINAL_POSITION |-> 1],
            [COLUMN_NAME |-> "note", COLUMN_COMMENT |-> "", ORDINAL_POSITION |-> 2] >>
    ELSE <<>>
\* INFORMATION_SCHEMA.TABLES rows for (db, t): TABLE_COMMENT
TableCommentRows(db, t) ==
    IF db = "db1" /\ t = "t1" THEN << [TABLE_COMMENT |-> "first table"] >> ELSE <<>>

Range(f) == {f[k] : k \in DOMAIN f}

\* optional list arguments: given = FALSE stands for None
OptLists(S) == {[given |-> FALSE, list |-> <<>>]} \cup {[given |-> TRUE, list |-> l] : l \in S}
DbLists == OptLists({<<>>, <<"db1">>, <<"nodb">>, <<"db1", "nodb">>})
ColLists == OptLists({<<>>, <<"zz">>, <<"zz", "id">>})

(***************************************************************************)
(* get_mysql_schema                                                        *)
(***************************************************************************)
\* lines 94-111: the nested result for one database
SchemaOf(db) ==
    [t \in TablesOf(db) |->
        [c \in {row.COLUMN_NAME : row \in Range(ColumnsOf(db, t))} |->
            (CHOOSE row \in Range(ColumnsOf(db, t)) : row.COLUMN_NAME = c).COLUMN_COMMENT]]

\* lines 82-113; qfail: some cursor.execute raises a pymysql.Error
GetMysqlSchema(db_name_list, srv, qfail) ==
    /\ CanCall
    /\ calls' = calls + 1
    /\ op' = "get_mysql_schema"
    /\ pc' = "done"
    /\ LET cfg == get_config(_source, configFile, cfgDb)
           connection_params == replace_config_dict(_defaults, cfg.dict)
           r == PyConnect(connection_params, srv)
           id == calls + 1
           dbs == IF db_name_list.given THEN Range(db_name_list.list) ELSE Databases
           \* the database the last "USE" of the loop leaves selected
           used == IF dbs = {} THEN connection_params["database"]
                   ELSE IF db_name_list.given
                   THEN db_name_list.list[Len(db_name_list.list)]
                   ELSE CHOOSE d \in Databases : TRUE
       IN IF cfg.fatal
          THEN /\ ret' = [kind |-> "exit"]
               /\ proc' = "exited"
               /\ exc' = [kind |-> "SystemExit"]
               /\ log' = << Ev("get_config", 0, "fatal") >>
               /\ current_db' = None
               /\ UNCHANGED <<openConns, _defaults>>
          ELSE IF r # "ok"
          THEN /\ ret' = [kind |-> "raise", exc |-> [kind |-> "pymysql", msg |-> r]]
               /\ exc' = [kind |-> "pymysql", msg |-> r]
               /\ log' = << Ev("connect", id, r) >>
               /\ _defaults' = ArgsAfterReplace(_defaults, cfg.dict)[1]
               /\ current_db' = None
               /\ UNCHANGED <<proc, openConns>>
          ELSE IF qfail \/ ~(dbs \subseteq Databases)
          THEN \* a query (or USE of an unknown database) raises: nothing is closed
               /\ ret' = [kind |-> "raise", exc |-> [kind |-> "pymysql", msg |-> "query_error"]]
               /\ exc' = [kind |-> "pymysql", msg |-> "query_error"]
               /\ log' = << Ev("connect", id, "ok"), Ev("execute", 0, "dberr") >>
               /\ openConns' = openConns \cup {id}
               /\ _defaults' = ArgsAfterReplace(_defaults, cfg.dict)[1]
               /\ current_db' = connection_params["database"]
               /\ UNCHANGED proc
          ELSE \* cursor.close() only: the connection object is dropped open
               /\ ret' = [kind |-> "return", value |-> [db \in dbs |-> SchemaOf(db)]]
               /\ exc' = NoExc
               /\ log' = << Ev("connect", id, "ok"), Ev("execute", 0, "ok"),
                            Ev("cursor_close", 0, "ok") >>
               /\ openConns' = openConns \cup {id}
               /\ _defaults' = ArgsAfterReplace(_defaults, cfg.dict)[1]
               /\ current_db' = used
               /\ UNCHANGED proc
    /\ args' = [tool |-> "get_mysql_schema", db_name_list |-> db_name_list]
    /\ NoRunSqlFrame
    /\ UNCHANGED <<_source, configFile, cfgDb, mergeVars>>

(***************************************************************************)
(* get_sql_table_info                                                      *)
(***************************************************************************)
\* lines 286-292
ColInfo(col, column_info) ==
    [min |-> <<"min", col>>, max |-> <<"max", col>>, mean |-> <<"mean", col>>,
     comment |-> column_info[col]]

\* lines 217-298 once connected; current: what DATABASE() evaluates to on the
\* connection; qfail: some cursor.execute raises a pymysql.Error
TableInfo(table_name, cols, current, qfail) ==
    LET rows == TableCommentRows(current, table_name)
        comment == IF rows # <<>> THEN rows[1].TABLE_COMMENT ELSE ""
        columns_data == ColumnsOf(current, table_name)
        column_info == [c \in {row.COLUMN_NAME : row \in Range(columns_data)} |->
                           (CHOOSE row \in Range(columns_data) : row.COLUMN_NAME = c).COLUMN_COMMENT]
        all_columns == [k \in 1..Len(columns_data) |-> columns_data[k].COLUMN_NAME]
        InInfo(c) == c \in DOMAIN column_info
        valid_cols == IF cols.given THEN SelectSeq(cols.list, InInfo) ELSE all_columns
    IN IF qfail
       THEN [kind |-> "raise", closed |-> FALSE]
       ELSE IF cols.given /\ valid_cols = <<>>
       THEN [kind |-> "return", closed |-> TRUE,
             value |-> [table_info |-> [comment |-> comment],
                        col_names |-> <<>>, col_info |-> <<>>]]
       ELSE IF valid_cols = <<>>
       THEN \* "SELECT  FROM `t`" is rejected by the server
            [kind |-> "raise", closed |-> FALSE]
       ELSE [kind |-> "return", closed |-> TRUE,
             value |-> [table_info |-> [comment |-> comment],
                        col_names |-> valid_cols,
                        col_info |-> [c \in Range(valid_cols) |-> ColInfo(c, column_info)]]]

\* lines 212-298
GetSqlTableInfo(table_name, db, cols, srv, qfail) ==
    /\ CanCall
    /\ calls' = calls + 1
    /\ op' = "get_sql_table_info"
    /\ pc' = "done"
    /\ LET cfg == get_config(_source, configFile, cfgDb)
           connection_params == replace_config_dict(_defaults, cfg.dict)
           r == PyConnect(connection_params, srv)
           id == calls + 1
           \* _connection() is called without database_name (line 213)
           current == connection_params["database"]
           t == TableInfo(table_name, cols, current, qfail)
       IN IF cfg.fatal
          THEN /\ ret' = [kind |-> "exit"]
               /\ proc' = "exited"
               /\ exc' = [kind |-> "SystemExit"]
               /\ log' = << Ev("get_config", 0, "fatal") >>
               /\ current_db' = None
               /\ UNCHANGED <<openConns, _defaults>>
          ELSE IF r # "ok"
          THEN \* except pymysql.MySQLError: sys.exit(e)
               /\ ret' = [kind |-> "exit"]
               /\ proc' = "exited"
               /\ exc' = [kind |-> "SystemExit"]
               /\ log' = << Ev("connect", id, r) >>
               /\ _defaults' = ArgsAfterReplace(_defaults, cfg.dict)[1]
               /\ current_db' = None
               /\ UNCHANGED openConns
          ELSE IF t.kind = "raise"
          THEN /\ ret' = [kind |-> "raise", exc |-> [kind |-> "pymysql", msg |-> "query_error"]]
               /\ exc' = [kind |-> "pymysql", msg |-> "query_error"]
               /\ log' = << Ev("connect", id, "ok"), Ev("execute", 0, "dberr") >>
               /\ openConns' = openConns \cup {id}
               /\ _defaults' = ArgsAfterReplace(_defaults, cfg.dict)[1]
               /\ current_db' = current
               /\ UNCHANGED proc
          ELSE /\ ret' = [kind |-> "return", value |-> t.value]
               /\ exc' = NoExc
               /\ log' = << Ev("connect", id, "ok"), Ev("execute", 0, "ok"),
                            Ev("cursor_close", 0, "ok"), Ev("close", id, "ok") >>
               /\ _defaults' = ArgsAfterReplace(_defaults, cfg.dict)[1]
               /\ current_db' = current
               /\ UNCHANGED <<proc, openConns>>
    /\ args' = [tool |-> "get_sql_table_info", table_name |-> table_name,
                 database |-> db, cols |-> cols]
    /\ NoRunSqlFrame
    /\ UNCHANGED <<_source, configFile, cfgDb, mergeVars>>

Next ==
    \/ \E sl \in Batches, db \in DbNames, fetch \in BOOLEAN : RunSqlCall(sl, db, fetch)
    \/ \E srv \in ServerStates, sel \in {"ok", "rejected"} :
          RunSqlConnect(srv, sel)
    \/ \E outcome \in {"ok", "dberr", "unexpected"} : RunSqlExecute(outcome)
    \/ \E outcome \in {"ok", "failed"} : RunSqlCommit(outcome)
    \/ \E outcome \in {"ok", "failed"} : RunSqlExcept(outcome)
    \/ RunSqlFinally
    \/ \E db \in {None} \cup DbNames, source \in Sources,
          srv \in ServerStates : TestConnection(db, source, srv)
    \/ \E l \in DbLists, srv \in ServerStates, qfail \in BOOLEAN :
          GetMysqlSchema(l, srv, qfail)
    \/ \E t \in TableNames, db \in DbNames, cols \in ColLists,
          srv \in ServerStates, qfail \in BOOLEAN :
          GetSqlTableInfo(t, db, cols, srv, qfail)

Spec == Init /\ [][Next]_vars

(***************************************************************************)
(* The two merges of utils/__init__.py applied on their own, to every      *)
(* pair of partial parameter sets over MergeKeys                           *)
(***************************************************************************)
MergeKeys == {"host", "user", "database"}
PartialDicts(V) == UNION {[S -> V] : S \in SUBSET MergeKeys}

InitMerge ==
    /\ proc = "running"
    /\ _source = "yaml"
    /\ _defaults = defaults
    /\ configFile = "present"
    /\ cfgDb = None
    /\ openConns = {}
    /\ calls = 0
    /\ pc = "idle"
    /\ op = "none"
    /\ sql_list = <<>>
    /\ database = None
    /\ fetch_results = TRUE
    /\ results = <<>>
    /\ errors = <<>>
    /\ status = "success"
    /\ i = 1
    /\ conn = NoConn
    /\ cursor = FALSE
    /\ exc = NoExc
    /\ log = <<>>
    /\ ret = [kind |-> "none"]
    /\ args = NoArgs
    /\ current_db = None
    /\ m_source_dict \in PartialDicts({None, "old"})
    /\ m_new_dict \in PartialDicts({None, "new"})
    /\ m_result = NoMerge

toolVars == <<proc, _source, _defaults, configFile, cfgDb, openConns, calls, pc, op,
              sql_list, database, fetch_results, results, errors, status, i,
              conn, cursor, exc, log, ret, args, current_db>>

\* replace_config_dict(m_source_dict, m_new_dict)
ApplyReplaceConfigDict ==
    /\ m_result = NoMerge
    /\ m_result' = [op |-> "replace_config_dict",
                    source_dict |-> m_source_dict, new_dict |-> m_new_dict,
                    result |-> replace_config_dict(m_source_dict, m_new_dict)]
    /\ m_source_dict' = ArgsAfterReplace(m_source_dict, m_new_dict)[1]
    /\ m_new_dict' = ArgsAfterReplace(m_source_dict, m_new_dict)[2]
    /\ UNCHANGED toolVars

\* trans_none_only(m_source_dict, m_new_dict)
ApplyTransNoneOnly ==
    /\ m_result = NoMerge
    /\ m_result' = [op |-> "trans_none_only",
                    source_dict |-> m_source_dict, new_dict |-> m_new_dict,
                    result |-> trans_none_only(m_source_dict, m_new_dict)]
    /\ m_source_dict' = ArgsAfterTransNoneOnly(m_source_dict, m_new_dict)[1]
    /\ m_new_dict' = ArgsAfterTransNoneOnly(m_source_dict, m_new_dict)[2]
    /\ UNCHANGED toolVars

NextMerge == ApplyReplaceConfigDict \/ ApplyTransNoneOnly

SpecMerge == InitMerge /\ [][NextMerge]_vars

(***************************************************************************)
(* Observations on the running / last call                                 *)
(***************************************************************************)
HasEv(name, outcome) == \E k \in DOMAIN log : log[k][1] = name /\ log[k][3] = outcome
Positions(name) == {k \in DOMAIN log : log[k][1] = name}
IsExecute(e) == e[1] = "execute"
\* the Python indices of the statements handed to cursor.execute, in order
ExecutedIndices == LET ex == SelectSeq(log, IsExecute) IN [k \in 1..Len(ex) |-> ex[k][2]]
UpTo(n) == [k \in 1..n |-> k - 1]

RunSqlDone == op = "run_sql" /\ pc = "done"
Reported == RunSqlDone /\ ret.kind = "return"
ConnectFailed == \E k \in Positions("connect") : log[k][3] # "ok"
SelectFailed == HasEv("select_db", "rejected")
Established == op = "run_sql" /\ conn # NoConn
Interrupted == HasEv("execute", "unexpected")

(***************************************************************************)
(* Claims                                                                  *)
(***************************************************************************)

\* C1: when run_sql cannot connect or cannot select the database, the report
\* has one null result and one copy of the same non-null message per
\* statement, status "error", and no statement was executed.
C1_ConnectionFailureReport ==
    (Reported /\ (ConnectFailed \/ SelectFailed)) =>
        LET r == ret.value
        IN /\ Len(r.results) = Len(sql_list)
           /\ Len(r.errors) = Len(sql_list)
           /\ \A k \in 1..Len(r.results) : r.results[k] = Null
           /\ \A k \in 1..Len(r.errors) :
                 r.errors[k] # Null /\ r.errors[k].kind = "conn" /\ r.errors[k] = r.errors[1]
           /\ r.status = "error"
           /\ Positions("execute") = {}

C1_Witness ==
    /\ Reported
    /\ SelectFailed
    /\ Len(sql_list) = 2
    /\ ret.value.errors = <<ConnErrorMsg("select_db_rejected"), ConnErrorMsg("select_db_rejected")>>

\* C2: on an established connection a database-level error of one statement
\* never ends the loop: unless an unexpected non-database error interrupts
\* it, the statements executed so far are exactly the indices before the loop
\* position, each once and in order, and all of them once the loop is over.
C2_FailureDoesNotAbortLoop ==
    (Established /\ ~Interrupted) =>
        ExecutedIndices = UpTo(IF pc = "rs_loop" THEN i - 1 ELSE Len(sql_list))

C2_Witness ==
    /\ RunSqlDone
    /\ Len(sql_list) = 2
    /\ \E k \in Positions("execute") : log[k] = Ev("execute", 0, "dberr")
    /\ HasEv("execute", "ok")
    /\ ExecutedIndices = <<0, 1>>

\* C3 as stated: whenever the connection was established exactly one commit
\* is issued, after the last statement and before the close; a statement
\* failure alone never causes a rollback, and a rollback follows only a
\* connection-level error.
CommitAfterLoopBeforeClose ==
    /\ Cardinality(Positions("commit")) = 1
    /\ \A c \in Positions("commit") :
          /\ \A e \in Positions("execute") : e < c
          /\ \A x \in Positions("close") : c < x
    /\ ExecutedIndices = UpTo(Len(sql_list))
RollbackOnlyAfterCommitFailure ==
    \A r \in Positions("rollback") :
        \E c \in Positions("commit") : c < r /\ log[c][3] = "failed"
C3_Original ==
    (RunSqlDone /\ Established) =>
        (CommitAfterLoopBeforeClose /\ RollbackOnlyAfterCommitFailure)

\* C3 amended: whenever the connection was established and no unexpected
\* non-database error interrupted the loop, exactly one commit is issued,
\* after the last statement and before the close, whether or not statements
\* failed; a rollback is issued only after that commit failed.  When an
\* unexpected error interrupts the loop neither commit nor rollback is issued.
C3_SingleCommit ==
    (RunSqlDone /\ Established) =>
        /\ ~Interrupted => CommitAfterLoopBeforeClose
        /\ RollbackOnlyAfterCommitFailure
        /\ Interrupted => (Positions("commit") = {} /\ Positions("rollback") = {})

C3_Witness ==
    /\ RunSqlDone
    /\ Established
    /\ HasEv("execute", "dberr")
    /\ HasEv("execute", "ok")
    /\ HasEv("commit", "ok")
    /\ Positions("rollback") = {}

\* C4: when the connection was opened and select_db was then rejected, the
\* connection is rolled back and closed before run_sql returns.
C4_PartialConnectionReleased ==
    (RunSqlDone /\ SelectFailed) =>
        /\ Positions("rollback") # {}
        /\ Positions("close") # {}
        /\ calls \notin openConns

\* C5: once run_sql holds an established connection, the connection is
\* closed when the invocation ends, however it ends.
C5_EstablishedConnectionClosed ==
    (RunSqlDone /\ Established) =>
        /\ conn \notin openConns
        /\ log[Len(log)] = Ev("close", conn, "ok")
        /\ Cardinality(Positions("close")) = 1

C5_Witness ==
    /\ RunSqlDone
    /\ Established
    /\ HasEv("rollback", "failed")
    /\ ret.kind = "raise"
    /\ conn \notin openConns

\* C6: in every report, status is "error" exactly when a statement failed,
\* the connection step failed, or the commit or rollback failed.
C6_StatusIffFailure ==
    Reported =>
        (ret.value.status = "error" <=>
            \/ HasEv("execute", "dberr")
            \/ ConnectFailed
            \/ SelectFailed
            \/ HasEv("commit", "failed")
            \/ HasEv("rollback", "failed"))

C6_Witness ==
    /\ Reported
    /\ ret.value.status = "error"
    /\ HasEv("commit", "failed")
    /\ ~HasEv("execute", "dberr")
    /\ Len(sql_list) = 1

\* C7: in every report results and errors have the length of sql_list, and
\* position k of each describes statement k: a captured outcome or a
\* statement message carries index k and matches what the execution of
\* statement k produced.
C7_PositionAligned ==
    Reported =>
        LET r == ret.value
        IN /\ Len(r.results) = Len(sql_list)
           /\ Len(r.errors) = Len(sql_list)
           /\ \A k \in 1..Len(sql_list) :
                 /\ r.results[k] # Null =>
                       /\ r.results[k].stmt = k - 1
                       /\ \E e \in Positions("execute") : log[e] = Ev("execute", k - 1, "ok")
                 /\ r.errors[k].kind = "stmt" =>
                       /\ r.errors[k].index = k - 1
                       /\ \E e \in Positions("execute") : log[e] = Ev("execute", k - 1, "dberr")

C7_Witness ==
    /\ Reported
    /\ Len(sql_list) = 2
    /\ ret.value.results[1] = Null
    /\ ret.value.errors[1] = StmtErrorMsg(1, "stmt_error")
    /\ ret.value.results[2].kind = "affected_rows"
    /\ ret.value.errors[2] = Null

\* C8 as stated: for an empty statement list the report is
\* results == [], errors == [], status == "success".
C8_Original ==
    (Reported /\ sql_list = <<>>) =>
        ret.value = [results |-> <<>>, errors |-> <<>>, status |-> "success"]

\* C8 amended: for an empty statement list the report has results == [] and
\* errors == []; status is "success" when the connection is established and
\* the commit succeeds, and "error" when the connection step or the commit
\* fails.
C8_EmptyBatch ==
    (Reported /\ sql_list = <<>>) =>
        /\ ret.value.results = <<>>
        /\ ret.value.errors = <<>>
        /\ ret.value.status =
              (IF ConnectFailed \/ SelectFailed \/ HasEv("commit", "failed")
               THEN "error" ELSE "success")

C8_Witness ==
    /\ Reported
    /\ sql_list = <<>>
    /\ HasEv("commit", "ok")
    /\ ret.value = [results |-> <<>>, errors |-> <<>>, status |-> "success"]

\* C9 as stated: every exposed operation returns a structured value on every
\* connection, statement, commit or rollback failure; only the two fatal
\* configuration cases end otherwise.
FatalConfig == HasEv("get_config", "fatal")
C10_TestConnectionBoolean ==
    (pc = "done" /\ op = "test_connection" /\ ~FatalConfig) =>
        /\ ret.kind = "return"
        /\ ret.value \in BOOLEAN
        /\ ret.value <=> HasEv("connect", "ok")
        /\ ret.value <=> HasEv("close", "ok")
        /\ proc = "running"

C10_Witness ==
    /\ pc = "done"
    /\ op = "test_connection"
    /\ HasEv("connect", "unknown_db")
    /\ ret.kind = "return"
    /\ ret.value = FALSE

\* C11: the outcome captured for a successfully executed statement is the
\* fetched row set exactly when fetch_results is true and the statement,
\* with surrounding whitespace removed, begins with SELECT in any letter
\* case; otherwise it is the affected-row count.
LowerOf(c) ==
    CASE c = "S" -> "s" [] c = "E" -> "e" [] c = "L" -> "l"
      [] c = "C" -> "c" [] c = "T" -> "t" [] OTHER -> c
SelectWord == <<"S", "E", "L", "E", "C", "T">>
TrimmedBeginsWithSelect(sql) ==
    \E j \in 1..Len(sql) :
        /\ \A m \in 1..(j - 1) : sql[m] = " "
        /\ j + 5 <= Len(sql)
        /\ \A m \in 1..6 : sql[j + m - 1] \in {SelectWord[m], LowerOf(SelectWord[m])}
C11_RowsIffFetchedSelect ==
    (op = "run_sql" /\ ~HasEv("commit", "failed")) =>
        \A k \in 1..Len(results) :
            (\E e \in Positions("execute") : log[e] = Ev("execute", k - 1, "ok")) =>
                results[k].kind =
                    (IF fetch_results /\ TrimmedBeginsWithSelect(sql_list[k])
                     THEN "rows" ELSE "affected_rows")

C11_Witness ==
    /\ Reported
    /\ fetch_results
    /\ sql_list = <<SqlSelect, SqlInsert>>
    /\ ret.value.results[1] = [kind |-> "rows", stmt |-> 0]
    /\ ret.value.results[2] = [kind |-> "affected_rows", stmt |-> 1]

\* C12: replace_config_dict(D, P) holds, for every key of D, P's value where
\* P has a non-null value for the key and D's value where P's value is null
\* or the key is absent from P.
C12_OverrideMerge ==
    m_result.op = "replace_config_dict" =>
        LET D == m_result.source_dict
            P == m_result.new_dict
            out == m_result.result
        IN /\ DOMAIN D \subseteq DOMAIN out
           /\ \A k \in DOMAIN D :
                 out[k] = (IF k \in DOMAIN P /\ P[k] # None THEN P[k] ELSE D[k])

C12_Witness ==
    /\ m_result.op = "replace_config_dict"
    /\ m_result.source_dict = [host |-> "old", user |-> "old", database |-> None]
    /\ m_result.new_dict = [host |-> None, user |-> "new"]
    /\ m_result.result = [host |-> "old", user |-> "new", database |-> None]

\* C13: trans_none_only(D, P) keeps every non-null value of D; the keys that
\* take P's value are exactly the keys of P that are absent from D or null
\* in D.
C13_FillNullMerge ==
    m_result.op = "trans_none_only" =>
        LET D == m_result.source_dict
            P == m_result.new_dict
            out == m_result.result
        IN /\ DOMAIN out = (DOMAIN D) \cup (DOMAIN P)
           /\ \A k \in DOMAIN D : D[k] # None => out[k] = D[k]
           /\ \A k \in DOMAIN P : (k \notin DOMAIN D \/ D[k] = None) => out[k] = P[k]
           /\ \A k \in DOMAIN D : k \notin DOMAIN P => out[k] = D[k]

C13_Witness ==
    /\ m_result.op = "trans_none_only"
    /\ m_result.source_dict = [host |-> "old", user |-> None]
    /\ m_result.new_dict = [host |-> "new", user |-> "new", database |-> "new"]
    /\ m_result.result = [host |-> "old", user |-> "new", database |-> "new"]

\* C14: a connection opened by get_mysql_schema or get_sql_table_info is
\* closed when the call has ended, on every path.
C14_IntrospectionConnectionClosed ==
    (pc = "done" /\ op \in {"get_mysql_schema", "get_sql_table_info"}) =>
        calls \notin openConns

\* C15: the connection get_sql_table_info queries is scoped to the database
\* named by its database argument, and the table comment it reports is the
\* one of table_name in that database.
C15_TableInfoReadsNamedDatabase ==
    (pc = "done" /\ op = "get_sql_table_info" /\ HasEv("connect", "ok")) =>
        /\ current_db = args.database
        /\ ret.kind = "return" =>
              ret.value.table_info.comment =
                  (IF TableCommentRows(args.database, args.table_name) # <<>>
                   THEN TableCommentRows(args.database, args.table_name)[1].TABLE_COMMENT
                   ELSE "")

\* C16: with a cols list, col_names holds exactly the requested columns that
\* exist in table_name of the named database, in the requested order, and
\* col_info has an entry for each of them; when none exists both are empty
\* and table_info.comment is still there.
ExistingColumns(db, t) == {row.COLUMN_NAME : row \in Range(ColumnsOf(db, t))}
RequestedExisting(a) ==
    LET Exists(c) == c \in ExistingColumns(a.database, a.table_name)
    IN SelectSeq(a.cols.list, Exists)
C16_UnknownColumnsDropped ==
    (pc = "done" /\ op = "get_sql_table_info" /\ ret.kind = "return" /\ args.cols.given) =>
        /\ ret.value.col_names = RequestedExisting(args)
        /\ DOMAIN ret.value.col_info = Range(ret.value.col_names)
        /\ "comment" \in DOMAIN ret.value.table_info

\* C17: with an unrecognized source tag given at startup the process ends
\* before any request is served.
RecognizedSources == {"yaml", ".env", "sys_env"}
C17_UnrecognizedSourceServesNothing ==
    _source \notin RecognizedSources => ~(pc = "done" /\ ret.kind = "return")

C19_ExactlyOneNull ==
    Reported =>
        /\ Len(ret.value.results) = Len(ret.value.errors)
        /\ \A k \in 1..Len(ret.value.results) :
              (ret.value.results[k] = Null) <=> (ret.value.errors[k] # Null)

C19_Witness ==
    /\ Reported
    /\ Len(sql_list) = 2
    /\ ret.value.results[1] # Null
    /\ ret.value.errors[1] = Null
    /\ ret.value.results[2] = Null
    /\ ret.value.errors[2] = StmtErrorMsg(2, "stmt_error")

\* C20: when the commit after the loop fails, what the loop captured is
\* discarded: every result is null, every error is the same connection-error
\* message, status is "error", and one rollback is issued after the commit
\* and before the connection is closed; this is the report when one is
\* returned.
C20_CommitFailureReport ==
    (RunSqlDone /\ HasEv("commit", "failed")) =>
        /\ results = Repeat(Null, Len(sql_list))
        /\ errors = Repeat(ConnErrorMsg("commit_error"), Len(sql_list))
        /\ status = "error"
        /\ Cardinality(Positions("rollback")) = 1
        /\ \A r \in Positions("rollback") :
              /\ \A c \in Positions("commit") : c < r
              /\ \E x \in Positions("close") : r < x
        /\ ret.kind = "return" =>
              ret.value = [results |-> results, errors |-> errors, status |-> status]

C20_Witness ==
    /\ Reported
    /\ HasEv("commit", "failed")
    /\ HasEv("execute", "ok")
    /\ HasEv("execute", "dberr")
    /\ HasEv("rollback", "ok")
    /\ ret.value.results = <<Null, Null>>
    /\ ret.value.status = "error"

====
